---- MODULE Spec2Model ----
(***************************************************************************)
(* vecna: schema-validated filter builder.                                 *)
(*                                                                         *)
(* Go strings that the code parses (field names, json tags, type names)    *)
(* are sequences of one-character strings; operator tokens, which the code *)
(* only compares, are TLA+ strings.  A *Filter is an index into heap       *)
(* (0 is the nil pointer); a []*Filter is an index into arrays (0 is the   *)
(* nil slice).  A Go value of type any is a record [t, v]: t is its        *)
(* dynamic type and v its contents as a tuple.                             *)
(***************************************************************************)
EXTENDS Integers, Sequences, FiniteSets, TLC

VARIABLES
    shape,       \* the record type T that New[T] inspected
    newErr,      \* the error New returned ("nil" or "ErrNotStruct")
    typeName,    \* Builder.spec.TypeName
    specFields,  \* backing array of Builder.spec.Fields
    fields,      \* Builder.fields: external name -> index into specFields
    heap,        \* every Filter allocated so far
    arrays,      \* every children array allocated so far
    last,        \* the last call: its inputs and what it returned
    threads      \* per goroutine: the call it is in and what it returned

vars == <<shape, newErr, typeName, specFields, fields, heap, arrays, last, threads>>

----------------------------------------------------------------------------
(* Bounds of the model. *)

\* Filters allocated in one behaviour of Spec.
MaxNodes == 3
\* Arguments of one fluent In/Nin call.
MaxArgs == 2
\* Filters allocated in one behaviour of SpecAlias.
MaxAliasNodes == 2

----------------------------------------------------------------------------
(* api.go: errors, operators, kinds. *)

NoErr == [is |-> "nil", text |-> "", op |-> "", kind |-> "", field |-> <<>>]

MkErr(is, text, op, kind, field) ==
    [is |-> is, text |-> text, op |-> op, kind |-> kind, field |-> field]

\* The zero value of Op (iota starts at Eq).
OpZero == "Eq"

OpString(o) ==
    CASE o = "Eq" -> "eq"
      [] o = "Ne" -> "ne"
      [] o = "Gt" -> "gt"
      [] o = "Gte" -> "gte"
      [] o = "Lt" -> "lt"
      [] o = "Lte" -> "lte"
      [] o = "In" -> "in"
      [] o = "And" -> "and"
      [] o = "Or" -> "or"
      [] OTHER -> "unknown"

FieldKindString(k) ==
    CASE k = "KindString" -> "string"
      [] k = "KindInt" -> "int"
      [] k = "KindFloat" -> "float"
      [] k = "KindBool" -> "bool"
      [] k = "KindSlice" -> "slice"
      [] OTHER -> "unknown"

\* The zero Filter: &Filter{} before any field is set.
ZeroFilter ==
    [op |-> OpZero, field |-> <<>>, value |-> [t |-> "nil", v |-> <<>>],
     children |-> 0, err |-> NoErr]

----------------------------------------------------------------------------
(* Values of type any. *)

VNil == [t |-> "nil", v |-> <<>>]
VInt == [t |-> "int", v |-> <<"1">>]
VStr(s) == [t |-> "string", v |-> <<s>>]
VFloat == [t |-> "float64", v |-> <<"1">>]
VBool == [t |-> "bool", v |-> <<"true">>]
VAnySlice(vs) == [t |-> "[]any", v |-> vs]
VStrSlice(ss) == [t |-> "[]string", v |-> ss]

\* reflect.ValueOf(value).Kind() == reflect.Slice
IsSliceKind(value) == value.t \in {"[]any", "[]string"}

----------------------------------------------------------------------------
(* Strings as sequences of characters. *)

HasPrefix(s, p) == Len(s) >= Len(p) /\ SubSeq(s, 1, Len(p)) = p

\* Index of the first sep in s at or after i, or 0.
RECURSIVE IndexFrom(_, _, _)
IndexFrom(s, sep, i) ==
    IF i > Len(s) THEN 0
    ELSE IF s[i] = sep THEN i
    ELSE IndexFrom(s, sep, i + 1)

\* strings.Split(s, sep) for a one-character sep.
RECURSIVE Split(_, _)
Split(s, sep) ==
    LET i == IndexFrom(s, sep, 1) IN
    IF i = 0 THEN <<s>>
    ELSE <<SubSeq(s, 1, i - 1)>> \o Split(SubSeq(s, i + 1, Len(s)), sep)

----------------------------------------------------------------------------
(* The introspection result New consumes (sentinel.Metadata). *)

Ch(c) == <<c>>

tString == <<"s", "t", "r", "i", "n", "g">>
tBool == <<"b", "o", "o", "l">>
tInt64 == <<"i", "n", "t", "6", "4">>
tUint8 == <<"u", "i", "n", "t", "8">>
tFloat64 == <<"f", "l", "o", "a", "t", "6", "4">>
tComplex == <<"c", "o", "m", "p", "l", "e", "x">>
tStrSlice == <<"[", "]", "s", "t", "r", "i", "n", "g">>
tStruct == <<"T">>
tInt == <<"i", "n", "t">>
tUint32 == <<"u", "i", "n", "t", "3", "2">>
tFloat32 == <<"f", "l", "o", "a", "t", "3", "2">>
tBoolean == <<"b", "o", "o", "l", "e", "a", "n">>
tStrings == <<"s", "t", "r", "i", "n", "g", "s">>
tIntSlice == <<"[", "]", "i", "n", "t">>
tIntPtr == <<"*", "i", "n", "t">>
tAny == <<"a", "n", "y">>

NoTags == [has |-> FALSE, json |-> <<>>]
Json(tag) == [has |-> TRUE, json |-> tag]

FieldMeta(name, tags, kind, type) ==
    [Name |-> name, Tags |-> tags, Kind |-> kind, Type |-> type]

\* One field of every kind; an excluded field; a field with no tag.
ShapeAll ==
    [IsStruct |-> TRUE, TypeName |-> "All", Fields |-> <<
        FieldMeta(Ch("S"), Json(<<"s">>), "KindScalar", tString),
        FieldMeta(Ch("I"), Json(<<"i", ",", "o">>), "KindScalar", tInt64),
        FieldMeta(Ch("F"), NoTags, "KindScalar", tFloat64),
        FieldMeta(Ch("B"), Json(<<"b">>), "KindScalar", tBool),
        FieldMeta(Ch("L"), Json(<<"l">>), "KindSlice", tStrSlice),
        FieldMeta(Ch("U"), Json(<<"u">>), "KindStruct", tStruct),
        FieldMeta(Ch("H"), Json(<<"-">>), "KindScalar", tString) >>]

\* Two declared fields that resolve to one external name; an alias whose name
\* component is empty; scalars the classification does not know.
ShapeDup ==
    [IsStruct |-> TRUE, TypeName |-> "Dup", Fields |-> <<
        FieldMeta(Ch("A"), Json(<<"d">>), "KindScalar", tString),
        FieldMeta(Ch("N"), Json(<<"d">>), "KindScalar", tUint8),
        FieldMeta(Ch("O"), Json(<<",", "o">>), "KindScalar", tComplex),
        FieldMeta(Ch("M"), Json(<<"m">>), "KindMap", tStruct) >>]

\* Aliases around "-": the alias "-" itself, an alias whose name component is
\* "-", a field after them.
ShapeDash ==
    [IsStruct |-> TRUE, TypeName |-> "Dash", Fields |-> <<
        FieldMeta(Ch("H"), Json(<<"-">>), "KindScalar", tString),
        FieldMeta(Ch("D"), Json(<<"-", ",", "o">>), "KindScalar", tString),
        FieldMeta(Ch("S"), Json(<<"s">>), "KindScalar", tString) >>]

\* Type names next to the ones the classification looks for, and the kinds
\* of sentinel it has no case for.
ShapeKinds ==
    [IsStruct |-> TRUE, TypeName |-> "Kinds", Fields |-> <<
        FieldMeta(Ch("a"), NoTags, "KindScalar", tInt),
        FieldMeta(Ch("c"), NoTags, "KindScalar", tUint32),
        FieldMeta(Ch("e"), NoTags, "KindScalar", tFloat32),
        FieldMeta(Ch("g"), NoTags, "KindScalar", tBoolean),
        FieldMeta(Ch("h"), NoTags, "KindScalar", tStrings),
        FieldMeta(Ch("j"), NoTags, "KindSlice", tIntSlice),
        FieldMeta(Ch("k"), NoTags, "KindPointer", tIntPtr),
        FieldMeta(Ch("n"), NoTags, "KindInterface", tAny) >>]

\* A type that is not a struct: TryInspect fails.
ShapeScalar == [IsStruct |-> FALSE, TypeName |-> "string", Fields |-> <<>>]

\* A slice type: not a struct either.
ShapeSlice == [IsStruct |-> FALSE, TypeName |-> "[]string", Fields |-> <<>>]

Shapes == {ShapeAll, ShapeDup, ShapeDash, ShapeKinds, ShapeScalar, ShapeSlice}

----------------------------------------------------------------------------
(* builder.go: New. *)

resolveFieldName(field) ==
    LET parts == Split(field.Tags.json, ",") IN
    IF field.Tags.has /\ Len(parts) > 0 /\ parts[1] # <<>>
    THEN parts[1]
    ELSE field.Name

\* resolveFieldKind comparing the integer names exactly.
resolveFieldKindExact(kind, type) ==
    CASE kind = "KindScalar" ->
            (CASE type = tInt \/ type = <<"u", "i", "n", "t">> -> "KindInt"
               [] HasPrefix(type, <<"f", "l", "o", "a", "t">>) -> "KindFloat"
               [] type = tBool -> "KindBool"
               [] type = tString -> "KindString"
               [] OTHER -> "KindUnknown")
      [] kind = "KindSlice" -> "KindSlice"
      [] OTHER -> "KindUnknown"

resolveFieldKind(kind, type) ==
    CASE kind = "KindScalar" ->
            (CASE HasPrefix(type, <<"i", "n", "t">>)
                    \/ HasPrefix(type, <<"u", "i", "n", "t">>) -> "KindInt"
               [] HasPrefix(type, <<"f", "l", "o", "a", "t">>) -> "KindFloat"
               [] type = tBool -> "KindBool"
               [] type = tString -> "KindString"
               [] OTHER -> "KindUnknown")
      [] kind = "KindSlice" -> "KindSlice"
      [] OTHER -> "KindUnknown"

EmptyMap == [n \in {} |-> 0]

\* The loop of New over metadata.Fields, from field i on.
RECURSIVE NewLoop(_, _, _, _)
NewLoop(mfs, i, fs, idx) ==
    IF i > Len(mfs) THEN [Fields |-> fs, fields |-> idx]
    ELSE
        LET name == resolveFieldName(mfs[i]) IN
        IF name = <<"-">> \/ name = <<>>
        THEN NewLoop(mfs, i + 1, fs, idx)
        ELSE
            LET fieldSpec == [Name |-> name, GoName |-> mfs[i].Name,
                              Kind |-> resolveFieldKind(mfs[i].Kind, mfs[i].Type)]
                fs2 == Append(fs, fieldSpec)
            IN NewLoop(mfs, i + 1, fs2, (name :> Len(fs2)) @@ idx)

\* New without the check of TryInspect's error.
NewNoCheck(metadata) ==
    LET r == NewLoop(metadata.Fields, 1, <<>>, EmptyMap) IN
    [err |-> "nil", TypeName |-> metadata.TypeName,
     Fields |-> r.Fields, fields |-> r.fields]

\* New[T](): the Builder, or ErrNotStruct and no Builder.
New(metadata) ==
    IF ~metadata.IsStruct
    THEN [err |-> "ErrNotStruct", TypeName |-> "", Fields |-> <<>>, fields |-> EmptyMap]
    ELSE
        LET r == NewLoop(metadata.Fields, 1, <<>>, EmptyMap) IN
        [err |-> "nil", TypeName |-> metadata.TypeName,
         Fields |-> r.Fields, fields |-> r.fields]

----------------------------------------------------------------------------
(* builder.go: Where and the FieldBuilder. *)

\* Where with the not-found error forgotten.
WhereNoErr(idx, field) ==
    IF field \notin DOMAIN idx
    THEN [field |-> field, spec |-> 0, err |-> NoErr]
    ELSE [field |-> field, spec |-> idx[field], err |-> NoErr]

\* A FieldBuilder: field, spec (index into specFields, 0 for nil) and err.
Where(idx, field) ==
    IF field \notin DOMAIN idx
    THEN [field |-> field, spec |-> 0,
          err |-> MkErr("ErrFieldNotFound", "", "", "", field)]
    ELSE [field |-> field, spec |-> idx[field], err |-> NoErr]

\* isComparisonOp taking Ne for a comparison.
isComparisonOpNe(op) == op = "Ne" \/ op = "Gt" \/ op = "Gte" \/ op = "Lt" \/ op = "Lte"

isComparisonOp(op) == op = "Gt" \/ op = "Gte" \/ op = "Lt" \/ op = "Lte"

\* isNumericKind without KindFloat.
isNumericKindIntOnly(kind) == kind = "KindInt"

isNumericKind(kind) == kind = "KindInt" \/ kind = "KindFloat"

\* validateInValue rejecting the empty slice.
validateInValueNonEmpty(value) ==
    IF ~IsSliceKind(value) \/ Len(value.v) = 0
    THEN MkErr("ErrInvalidFilter", "In operator requires slice of values", "", "", <<>>)
    ELSE NoErr

validateInValue(value) ==
    IF ~IsSliceKind(value)
    THEN MkErr("ErrInvalidFilter", "In operator requires slice of values", "", "", <<>>)
    ELSE NoErr

NotValidFor(op, kind, field) ==
    MkErr("ErrInvalidFilter", "not valid for", OpString(op), FieldKindString(kind), field)

\* validateValue without the Like rule.
validateValueNoLike(fs, fb, op, value) ==
    IF fb.spec = 0 THEN NoErr
    ELSE IF op = "In" \/ op = "Nin" THEN validateInValue(value)
    ELSE IF op = "Contains" /\ fs[fb.spec].Kind # "KindSlice"
        THEN NotValidFor(op, fs[fb.spec].Kind, fb.field)
    ELSE IF isComparisonOp(op) /\ ~isNumericKind(fs[fb.spec].Kind)
        THEN NotValidFor(op, fs[fb.spec].Kind, fb.field)
    ELSE NoErr

\* validateValue with Contains held to the kind Like requires.
validateValueContainsString(fs, fb, op, value) ==
    IF fb.spec = 0 THEN NoErr
    ELSE IF op = "In" \/ op = "Nin" THEN validateInValue(value)
    ELSE IF op = "Like" /\ fs[fb.spec].Kind # "KindString"
        THEN NotValidFor(op, fs[fb.spec].Kind, fb.field)
    ELSE IF op = "Contains" /\ fs[fb.spec].Kind # "KindString"
        THEN NotValidFor(op, fs[fb.spec].Kind, fb.field)
    ELSE IF isComparisonOp(op) /\ ~isNumericKind(fs[fb.spec].Kind)
        THEN NotValidFor(op, fs[fb.spec].Kind, fb.field)
    ELSE NoErr

validateValue(fs, fb, op, value) ==
    IF fb.spec = 0 THEN NoErr
    ELSE IF op = "In" \/ op = "Nin" THEN validateInValue(value)
    ELSE IF op = "Like" /\ fs[fb.spec].Kind # "KindString"
        THEN NotValidFor(op, fs[fb.spec].Kind, fb.field)
    ELSE IF op = "Contains" /\ fs[fb.spec].Kind # "KindSlice"
        THEN NotValidFor(op, fs[fb.spec].Kind, fb.field)
    ELSE IF isComparisonOp(op) /\ ~isNumericKind(fs[fb.spec].Kind)
        THEN NotValidFor(op, fs[fb.spec].Kind, fb.field)
    ELSE NoErr

\* The Filter makeFilter allocates.
makeFilter(fs, fb, op, value) ==
    IF fb.err # NoErr
    THEN [op |-> op, field |-> fb.field, value |-> value, children |-> 0, err |-> fb.err]
    ELSE
        LET err == validateValue(fs, fb, op, value) IN
        IF err # NoErr
        THEN [op |-> op, field |-> fb.field, value |-> value, children |-> 0, err |-> err]
        ELSE [op |-> op, field |-> fb.field, value |-> value, children |-> 0, err |-> NoErr]

\* Eq, Ne, Gt, Gte, Lt, Lte, Contains: the value is passed on as it is.
FieldOp(fs, fb, op, value) == makeFilter(fs, fb, op, value)

\* In(values ...any), Nin(values ...any): the arguments arrive as one []any.
FieldIn(fs, fb, op, values) == makeFilter(fs, fb, op, VAnySlice(values))

\* Like(pattern string).
FieldLike(fs, fb, pattern) == makeFilter(fs, fb, "Like", VStr(pattern))

----------------------------------------------------------------------------
(* Allocation.  A call works on m = [heap, arrays, ret, panic]: the two     *)
(* object stores, the pointer it returns, and whether it panicked.          *)

Mem(h, a) == [heap |-> h, arrays |-> a, ret |-> 0, panic |-> FALSE]

\* &Filter{...}: a new Filter; ret points to it.
AllocFilter(m, node) ==
    [m EXCEPT !.heap = Append(m.heap, node), !.ret = Len(m.heap) + 1]

\* A new []*Filter holding elems; the nil slice when there are none to hold.
AllocArray(m, elems) ==
    IF Len(elems) = 0 THEN [m EXCEPT !.ret = 0]
    ELSE [m EXCEPT !.arrays = Append(m.arrays, elems), !.ret = Len(m.arrays) + 1]

\* The elements of a []*Filter.
Elems(a, slice) == IF slice = 0 THEN <<>> ELSE a[slice]

----------------------------------------------------------------------------
(* builder.go: And, Or, Not.  filters is the slice the call receives. *)

\* And putting the Filter it returns into the slice it was given.
AndSelf(m, filters) ==
    IF filters = 0
    THEN AllocFilter(m, [ZeroFilter EXCEPT !.op = "And", !.children = filters])
    ELSE AllocFilter([m EXCEPT !.arrays[filters][1] = Len(m.heap) + 1],
                     [ZeroFilter EXCEPT !.op = "And", !.children = filters])

\* And clearing the errors of the filters it is given.
AndClearsErr(m, filters) ==
    LET cs == Elems(m.arrays, filters)
        cleared == [k \in 1..Len(m.heap) |->
                       IF \E i \in 1..Len(cs) : cs[i] = k
                       THEN [m.heap[k] EXCEPT !.err = NoErr]
                       ELSE m.heap[k]]
    IN AllocFilter([m EXCEPT !.heap = cleared],
                   [ZeroFilter EXCEPT !.op = "And", !.children = filters])

\* And with the arity check of fromLogicalSpec.
AndArity(m, filters) ==
    IF filters = 0
    THEN AllocFilter(m, [ZeroFilter EXCEPT !.op = "And",
            !.err = MkErr("ErrInvalidFilter", "requires at least one child",
                          OpString("And"), "", <<>>)])
    ELSE AllocFilter(m, [ZeroFilter EXCEPT !.op = "And", !.children = filters])

And(m, filters) == AllocFilter(m, [ZeroFilter EXCEPT !.op = "And", !.children = filters])

Or(m, filters) == AllocFilter(m, [ZeroFilter EXCEPT !.op = "Or", !.children = filters])

\* Not builds its own one-element slice.
Not(m, filter) ==
    LET m1 == AllocArray(m, <<filter>>) IN
    AllocFilter(m1, [ZeroFilter EXCEPT !.op = "Not", !.children = m1.ret])

----------------------------------------------------------------------------
(* api.go: Filter.Err. *)

RECURSIVE Err(_, _, _)
RECURSIVE ErrChildren(_, _, _, _)

\* Err looking at the Filter alone, not at its children.
ErrOwnOnly(h, a, f) ==
    IF f = 0 THEN NoErr ELSE h[f].err

\* The loop of Err running from the last child to the first.
ErrChildrenRev(h, a, cs, i) ==
    IF i > Len(cs) THEN NoErr
    ELSE
        LET err == Err(h, a, cs[Len(cs) + 1 - i]) IN
        IF err # NoErr THEN err ELSE ErrChildren(h, a, cs, i + 1)

\* The loop of Err over f.children, from child i on.
ErrChildren(h, a, cs, i) ==
    IF i > Len(cs) THEN NoErr
    ELSE
        LET err == Err(h, a, cs[i]) IN
        IF err # NoErr THEN err ELSE ErrChildren(h, a, cs, i + 1)

Err(h, a, f) ==
    IF f = 0 THEN NoErr
    ELSE IF h[f].err # NoErr THEN h[f].err
    ELSE ErrChildren(h, a, Elems(a, h[f].children), 1)

----------------------------------------------------------------------------
(* The spec converter: FilterSpec and FromSpec.  A *FilterSpec is a record *)
(* whose nil field says whether the pointer is nil.                        *)

NilSpec == [nil |-> TRUE, Op |-> "", Field |-> <<>>, Value |-> VNil, Children |-> <<>>]

FilterSpec(op, field, value, children) ==
    [nil |-> FALSE, Op |-> op, Field |-> field, Value |-> value, Children |-> children]

parseOp(s) ==
    CASE s = "eq" -> [op |-> "Eq", err |-> NoErr]
      [] s = "ne" -> [op |-> "Ne", err |-> NoErr]
      [] s = "gt" -> [op |-> "Gt", err |-> NoErr]
      [] s = "gte" -> [op |-> "Gte", err |-> NoErr]
      [] s = "lt" -> [op |-> "Lt", err |-> NoErr]
      [] s = "lte" -> [op |-> "Lte", err |-> NoErr]
      [] s = "in" -> [op |-> "In", err |-> NoErr]
      [] s = "and" -> [op |-> "And", err |-> NoErr]
      [] s = "or" -> [op |-> "Or", err |-> NoErr]
      [] OTHER -> [op |-> OpZero,
                   err |-> MkErr("ErrInvalidFilter", "unknown operator", s, "", <<>>)]

\* fromInSpec: a []any is spread over In's parameters, anything else is In's
\* only argument.
fromInSpec(fs, fb, value) ==
    IF value.t = "[]any"
    THEN FieldIn(fs, fb, "In", value.v)
    ELSE FieldIn(fs, fb, "In", <<value>>)

fromFieldSpec(b, m, op, field, value) ==
    LET fb == Where(b.fields, field) IN
    CASE op \in {"Eq", "Ne", "Gt", "Gte", "Lt", "Lte"} ->
            AllocFilter(m, FieldOp(b.Fields, fb, op, value))
      [] op = "In" -> AllocFilter(m, fromInSpec(b.Fields, fb, value))
      [] OTHER ->
            AllocFilter(m, [ZeroFilter EXCEPT !.op = op, !.field = field, !.value = value,
                !.err = MkErr("ErrInvalidFilter", "unsupported field operator",
                              OpString(op), "", <<>>)])

RECURSIVE FromSpec(_, _, _)
RECURSIVE fromSpecChildren(_, _, _, _, _)

\* The loop of fromLogicalSpec filling filters from its last slot down.
fromSpecChildrenRev(b, m, children, i, filters) ==
    IF m.panic \/ i > Len(children) THEN m
    ELSE
        LET m1 == FromSpec(b, m, children[i]) IN
        IF m1.panic THEN m1
        ELSE fromSpecChildren(b,
                [m1 EXCEPT !.arrays[filters][Len(children) + 1 - i] = m1.ret],
                children, i + 1, filters)

\* The loop of fromLogicalSpec: filters[i] = b.FromSpec(child), from child i on.
fromSpecChildren(b, m, children, i, filters) ==
    IF m.panic \/ i > Len(children) THEN m
    ELSE
        LET m1 == FromSpec(b, m, children[i]) IN
        IF m1.panic THEN m1
        ELSE fromSpecChildren(b, [m1 EXCEPT !.arrays[filters][i] = m1.ret],
                              children, i + 1, filters)

fromLogicalSpec(b, m, op, children) ==
    IF Len(children) = 0
    THEN AllocFilter(m, [ZeroFilter EXCEPT !.op = op,
            !.err = MkErr("ErrInvalidFilter", "requires at least one child",
                          OpString(op), "", <<>>)])
    ELSE
        LET m1 == AllocArray(m, [i \in 1..Len(children) |-> 0])
            filters == m1.ret
            m2 == fromSpecChildren(b, m1, children, 1, filters)
        IN
        IF m2.panic THEN [m2 EXCEPT !.ret = 0]
        ELSE IF op = "And" THEN And(m2, filters) ELSE Or(m2, filters)

\* FromSpec copying the spec's field and value onto a logical node.
fromSpecDerefKeepsField(b, m, spec) ==
    IF spec.nil THEN [m EXCEPT !.panic = TRUE, !.ret = 0]
    ELSE
        LET r == parseOp(spec.Op) IN
        IF r.err # NoErr THEN AllocFilter(m, [ZeroFilter EXCEPT !.err = r.err])
        ELSE IF r.op = "And" \/ r.op = "Or"
            THEN LET m1 == fromLogicalSpec(b, m, r.op, spec.Children) IN
                 IF m1.ret = 0 THEN m1
                 ELSE [m1 EXCEPT !.heap[m1.ret].field = spec.Field,
                                 !.heap[m1.ret].value = spec.Value]
        ELSE fromFieldSpec(b, m, r.op, spec.Field, spec.Value)

\* FromSpec past its nil check.  Reading spec.Op through a nil pointer panics.
fromSpecDeref(b, m, spec) ==
    IF spec.nil THEN [m EXCEPT !.panic = TRUE, !.ret = 0]
    ELSE
        LET r == parseOp(spec.Op) IN
        IF r.err # NoErr THEN AllocFilter(m, [ZeroFilter EXCEPT !.err = r.err])
        ELSE IF r.op = "And" \/ r.op = "Or"
            THEN fromLogicalSpec(b, m, r.op, spec.Children)
        ELSE fromFieldSpec(b, m, r.op, spec.Field, spec.Value)

\* FromSpec without its nil check.
FromSpecNoNilCheck(b, m, spec) == fromSpecDeref(b, m, spec)

\* FromSpec answering a nil spec with an empty Filter.
FromSpecNilNoErr(b, m, spec) ==
    IF spec.nil THEN AllocFilter(m, ZeroFilter) ELSE fromSpecDeref(b, m, spec)

FromSpec(b, m, spec) ==
    IF spec.nil
    THEN AllocFilter(m, [ZeroFilter EXCEPT
            !.err = MkErr("ErrInvalidFilter", "nil spec", "", "", <<>>)])
    ELSE fromSpecDeref(b, m, spec)

\* The Filters one FromSpec call allocates at most.
RECURSIVE SpecSize(_)
RECURSIVE SpecSizeSum(_, _)
SpecSizeSum(children, i) ==
    IF i > Len(children) THEN 0
    ELSE SpecSize(children[i]) + SpecSizeSum(children, i + 1)
SpecSize(spec) == 1 + SpecSizeSum(spec.Children, 1)

----------------------------------------------------------------------------
(* encoding/json on FilterSpec.  A JSON value is [j, v]: j is its kind and  *)
(* v its text or its parts; an object is the sequence of its members.       *)

JNull == [j |-> "null", v |-> <<>>]
JNum(digits) == [j |-> "num", v |-> digits]
JBool(word) == [j |-> "bool", v |-> word]
JStr(chars) == [j |-> "str", v |-> chars]
JArr(elems) == [j |-> "arr", v |-> elems]
JObj(members) == [j |-> "obj", v |-> members]
Member(key, json) == [k |-> key, m |-> json]

HasMember(obj, key) == \E i \in DOMAIN obj.v : obj.v[i].k = key
GetMember(obj, key) == obj.v[CHOOSE i \in DOMAIN obj.v : obj.v[i].k = key].m

\* json.Marshal of a value held in an any.
RECURSIVE EncodeValue(_)
EncodeValue(value) ==
    CASE value.t = "nil" -> JNull
      [] value.t = "int" -> JNum(value.v)
      [] value.t = "float64" -> JNum(value.v)
      [] value.t = "bool" -> JBool(value.v)
      [] value.t = "string" -> JStr(value.v)
      [] value.t = "[]any" -> JArr([i \in 1..Len(value.v) |-> EncodeValue(value.v[i])])
      [] value.t = "[]string" -> JArr([i \in 1..Len(value.v) |-> JStr(<<value.v[i]>>)])

\* json.Unmarshal into an any: numbers become float64, arrays []any.
RECURSIVE DecodeValue(_)
DecodeValue(json) ==
    CASE json.j = "null" -> VNil
      [] json.j = "num" -> [t |-> "float64", v |-> json.v]
      [] json.j = "bool" -> [t |-> "bool", v |-> json.v]
      [] json.j = "str" -> [t |-> "string", v |-> json.v]
      [] json.j = "arr" -> VAnySlice([i \in 1..Len(json.v) |-> DecodeValue(json.v[i])])

RECURSIVE EncodeSpec(_)

\* The encoding with the field member written even when the field is empty.
EncodeSpecNoOmit(spec) ==
    IF spec.nil THEN JNull
    ELSE JObj(<<Member("op", JStr(<<spec.Op>>))>>
              \o <<Member("field", JStr(spec.Field))>>
              \o (IF spec.Value.t # "nil"
                  THEN <<Member("value", EncodeValue(spec.Value))>> ELSE <<>>)
              \o (IF Len(spec.Children) # 0
                  THEN <<Member("children",
                           JArr([i \in 1..Len(spec.Children) |-> EncodeSpec(spec.Children[i])]))>>
                  ELSE <<>>))

\* json.Marshal of a *FilterSpec: op always, the omitempty members when they
\* are not empty (a string of length 0, a nil interface, a slice of length 0).
EncodeSpec(spec) ==
    IF spec.nil THEN JNull
    ELSE JObj(<<Member("op", JStr(<<spec.Op>>))>>
              \o (IF Len(spec.Field) # 0
                  THEN <<Member("field", JStr(spec.Field))>> ELSE <<>>)
              \o (IF spec.Value.t # "nil"
                  THEN <<Member("value", EncodeValue(spec.Value))>> ELSE <<>>)
              \o (IF Len(spec.Children) # 0
                  THEN <<Member("children",
                           JArr([i \in 1..Len(spec.Children) |-> EncodeSpec(spec.Children[i])]))>>
                  ELSE <<>>))

\* json.Unmarshal into a *FilterSpec: a member that is missing leaves the zero
\* value.
RECURSIVE DecodeSpec(_)
DecodeSpec(json) ==
    IF json.j = "null" THEN NilSpec
    ELSE FilterSpec(
            IF HasMember(json, "op") THEN GetMember(json, "op").v[1] ELSE "",
            IF HasMember(json, "field") THEN GetMember(json, "field").v ELSE <<>>,
            IF HasMember(json, "value") THEN DecodeValue(GetMember(json, "value")) ELSE VNil,
            IF HasMember(json, "children")
            THEN LET cs == GetMember(json, "children").v IN
                 [i \in 1..Len(cs) |-> DecodeSpec(cs[i])]
            ELSE <<>>)

----------------------------------------------------------------------------
(* Inputs. *)

\* Field names a caller passes to Where: the external names of the shapes, a
\* declared name that is not an external name, "-", a name no shape has, "".
Names == {<<"s">>, <<"i">>, <<"F">>, <<"b">>, <<"l">>, <<"u">>, <<"d">>, <<"O">>, <<"m">>,
          <<"S">>, <<"-">>, <<"x">>, <<>>}

ScalarOps == {"Eq", "Ne", "Gt", "Gte", "Lt", "Lte", "Contains"}
InOps == {"In", "Nin"}

ArgVals == {VInt, VStr("a")}

RECURSIVE SeqsUpTo(_, _)
SeqsUpTo(S, n) ==
    IF n = 0 THEN {<<>>}
    ELSE LET shorter == SeqsUpTo(S, n - 1) IN
         shorter \cup {Append(q, x) : q \in {r \in shorter : Len(r) = n - 1}, x \in S}

Values == {VNil, VInt, VStr("a"), VAnySlice(<<VInt>>), VStrSlice(<<"a">>)}

Patterns == {"a", "%"}

----------------------------------------------------------------------------
(* The calls. *)

NoCall ==
    [fn |-> "", name |-> <<>>, op |-> "", value |-> VNil, vals |-> <<>>, args |-> <<>>,
     spec |-> NilSpec, root |-> 0, ret |-> 0, err |-> NoErr, panic |-> FALSE,
     wire |-> JNull, out |-> NilSpec]

Builder == [Fields |-> specFields, fields |-> fields]

Built == newErr = "nil"

Room(n) == Len(heap) + n <= MaxNodes

\* What a call leaves behind: the stores, and the record of the call.
Return(m, call) ==
    /\ heap' = m.heap
    /\ arrays' = m.arrays
    /\ last' = [call EXCEPT !.ret = m.ret, !.panic = m.panic]
    /\ UNCHANGED <<shape, newErr, typeName, specFields, fields, threads>>

\* b.Where(name).Eq(value), .Ne, .Gt, .Gte, .Lt, .Lte, .Contains
LeafCall(name, op, value) ==
    /\ Built /\ Room(1)
    /\ Return(AllocFilter(Mem(heap, arrays),
                          FieldOp(specFields, Where(fields, name), op, value)),
              [NoCall EXCEPT !.fn = "Leaf", !.name = name, !.op = op, !.value = value])

\* b.Where(name).In(args...), .Nin(args...)
InCall(name, op, args) ==
    /\ Built /\ Room(1)
    /\ Return(AllocFilter(Mem(heap, arrays),
                          FieldIn(specFields, Where(fields, name), op, args)),
              [NoCall EXCEPT !.fn = "In", !.name = name, !.op = op,
                             !.value = VAnySlice(args), !.vals = args])

\* b.Where(name).Like(pattern)
LikeCall(name, pattern) ==
    /\ Built /\ Room(1)
    /\ Return(AllocFilter(Mem(heap, arrays),
                          FieldLike(specFields, Where(fields, name), pattern)),
              [NoCall EXCEPT !.fn = "Like", !.name = name, !.op = "Like",
                             !.value = VStr(pattern)])

\* b.And(args...): the arguments arrive as one new slice.
AndCall(args) ==
    /\ Built /\ Room(1)
    /\ LET m1 == AllocArray(Mem(heap, arrays), args) IN
       Return(And(m1, m1.ret), [NoCall EXCEPT !.fn = "And", !.args = args])

\* b.Or(args...)
OrCall(args) ==
    /\ Built /\ Room(1)
    /\ LET m1 == AllocArray(Mem(heap, arrays), args) IN
       Return(Or(m1, m1.ret), [NoCall EXCEPT !.fn = "Or", !.args = args])

\* b.Not(arg)
NotCall(arg) ==
    /\ Built /\ Room(1)
    /\ Return(Not(Mem(heap, arrays), arg), [NoCall EXCEPT !.fn = "Not", !.args = <<arg>>])

\* b.FromSpec(spec)
FromSpecCall(spec) ==
    /\ Built /\ Room(SpecSize(spec))
    /\ Return(FromSpec(Builder, Mem(heap, arrays), spec),
              [NoCall EXCEPT !.fn = "FromSpec", !.spec = spec])

\* root.Err()
ErrCall(root) ==
    /\ Built
    /\ last' = [NoCall EXCEPT !.fn = "Err", !.root = root, !.err = Err(heap, arrays, root)]
    /\ UNCHANGED <<shape, newErr, typeName, specFields, fields, heap, arrays, threads>>

\* Every child of every Filter was built before the Filter.
ChildrenOlder ==
    \A k \in 1..Len(heap) :
        \A i \in 1..Len(Elems(arrays, heap[k].children)) :
            Elems(arrays, heap[k].children)[i] < k

\* s := f.Children(); s[i] = p.  The slice is f.children itself, and for
\* b.And(s...) it is also the slice the caller passed.  The record keeps the
\* children and Err() of f from before the write.
WriteElemCall(f, i, p) ==
    /\ Built /\ ChildrenOlder
    /\ f \in 1..Len(heap) /\ heap[f].children # 0
    /\ i \in 1..Len(arrays[heap[f].children])
    /\ arrays[heap[f].children][i] # p
    /\ arrays' = [arrays EXCEPT ![heap[f].children][i] = p]
    /\ last' = [NoCall EXCEPT !.fn = "Write", !.root = f,
                              !.args = arrays[heap[f].children],
                              !.err = Err(heap, arrays, f)]
    /\ UNCHANGED <<shape, newErr, typeName, specFields, fields, heap, threads>>

\* s := b.Spec(); s.Fields[i] = entry.  Spec() copies the struct; its Fields
\* slice still points at the array the Builder and its index use.
SpecWriteCall(i, entry) ==
    /\ Built
    /\ i \in DOMAIN specFields /\ specFields[i] # entry
    /\ specFields' = [specFields EXCEPT ![i] = entry]
    /\ last' = [NoCall EXCEPT !.fn = "SpecWrite", !.root = i]
    /\ UNCHANGED <<shape, newErr, typeName, fields, heap, arrays, threads>>

\* json.Marshal(spec), then json.Unmarshal of the bytes into a new *FilterSpec.
RoundTripCall(spec) ==
    /\ Built
    /\ last' = [NoCall EXCEPT !.fn = "RoundTrip", !.spec = spec,
                              !.wire = EncodeSpec(spec),
                              !.out = DecodeSpec(EncodeSpec(spec))]
    /\ UNCHANGED <<shape, newErr, typeName, specFields, fields, heap, arrays, threads>>

----------------------------------------------------------------------------
(* Calls from several goroutines on one Builder.  A leaf call is two steps, *)
(* b.Where(name) and the operator method on the FieldBuilder it returned;   *)
(* other goroutines run between them.                                       *)

Threads == {1, 2}

\* A goroutine outside any call.  start is the number of Filters that existed
\* when its call began; out is the Spec a call to Spec() returned.
IdleThread ==
    [pc |-> "idle", call |-> NoCall, fb |-> [field |-> <<>>, spec |-> 0, err |-> NoErr],
     start |-> 0, ret |-> 0, out |-> [TypeName |-> "", Fields |-> <<>>]]

\* Filters promised to calls that have begun and not returned.
Pending == Cardinality({t \in Threads : threads[t].pc = "where"})

RoomFor(n) == Len(heap) + Pending + n <= MaxNodes

\* Every goroutine running on the FieldBuilder goroutine 1 made.
FieldBuilderShared(ths, t) == ths[1].fb

\* The receiver of goroutine t's operator call: the FieldBuilder its own Where
\* returned.
FieldBuilderOf(ths, t) == ths[t].fb

\* The stores after a goroutine's step; the sequential record is not touched.
ThreadReturn(t, m, call, start) ==
    /\ heap' = m.heap
    /\ arrays' = m.arrays
    /\ threads' = [threads EXCEPT ![t] =
            [IdleThread EXCEPT !.pc = "done", !.call = call, !.start = start,
                               !.ret = m.ret]]
    /\ UNCHANGED <<shape, newErr, typeName, specFields, fields, last>>

\* fb := b.Where(name)
ThreadWhere(t, name, op, value) ==
    /\ Built /\ threads[t].pc # "where" /\ RoomFor(1)
    /\ threads' = [threads EXCEPT ![t] =
            [IdleThread EXCEPT !.pc = "where", !.fb = Where(fields, name),
                               !.start = Len(heap),
                               !.call = [NoCall EXCEPT !.fn = "Leaf", !.name = name,
                                                       !.op = op, !.value = value]]]
    /\ UNCHANGED <<shape, newErr, typeName, specFields, fields, heap, arrays, last>>

\* fb.Eq(value), fb.Gt(value), ...
ThreadOp(t) ==
    /\ threads[t].pc = "where"
    /\ ThreadReturn(t, AllocFilter(Mem(heap, arrays),
                        FieldOp(specFields, FieldBuilderOf(threads, t),
                                threads[t].call.op, threads[t].call.value)),
                    threads[t].call, threads[t].start)

ThreadAnd(t, args) ==
    /\ Built /\ threads[t].pc # "where" /\ RoomFor(1)
    /\ LET m1 == AllocArray(Mem(heap, arrays), args) IN
       ThreadReturn(t, And(m1, m1.ret), [NoCall EXCEPT !.fn = "And", !.args = args],
                    Len(heap))

ThreadOr(t, args) ==
    /\ Built /\ threads[t].pc # "where" /\ RoomFor(1)
    /\ LET m1 == AllocArray(Mem(heap, arrays), args) IN
       ThreadReturn(t, Or(m1, m1.ret), [NoCall EXCEPT !.fn = "Or", !.args = args],
                    Len(heap))

ThreadNot(t, arg) ==
    /\ Built /\ threads[t].pc # "where" /\ RoomFor(1)
    /\ ThreadReturn(t, Not(Mem(heap, arrays), arg),
                    [NoCall EXCEPT !.fn = "Not", !.args = <<arg>>], Len(heap))

ThreadFromSpec(t, spec) ==
    /\ Built /\ threads[t].pc # "where" /\ RoomFor(SpecSize(spec))
    /\ ThreadReturn(t, FromSpec(Builder, Mem(heap, arrays), spec),
                    [NoCall EXCEPT !.fn = "FromSpec", !.spec = spec], Len(heap))

\* b.Spec(): the Spec struct by value.
ThreadSpec(t) ==
    /\ Built /\ threads[t].pc # "where"
    /\ threads' = [threads EXCEPT ![t] =
            [IdleThread EXCEPT !.pc = "done",
                               !.call = [NoCall EXCEPT !.fn = "Spec"],
                               !.out = [TypeName |-> typeName, Fields |-> specFields]]]
    /\ UNCHANGED <<shape, newErr, typeName, specFields, fields, heap, arrays, last>>

----------------------------------------------------------------------------
(* Specifications. *)

\* The state after New on metadata.
Start(metadata) ==
    LET b == New(metadata) IN
    /\ shape = metadata
    /\ newErr = b.err
    /\ typeName = b.TypeName
    /\ specFields = b.Fields
    /\ fields = b.fields
    /\ heap = <<>>
    /\ arrays = <<>>
    /\ last = NoCall
    /\ threads = [t \in Threads |-> IdleThread]

Init == Start(ShapeAll)

InitLeaf == \E metadata \in Shapes : Start(metadata)

\* Pointers a caller holds: nil and every Filter allocated so far.  Err is
\* called on the newest of them (nil when no Filter exists yet).
Ptrs == 0..Len(heap)

\* Argument lists of the fluent And and Or: none, one or two filters.
ArgLists == {<<>>} \cup {<<p>> : p \in Ptrs} \cup {<<p, q>> : p, q \in Ptrs}

\* Leaves the caller of Spec builds its trees from: one without error, one with
\* InvalidFilterError, one with FieldNotFoundError (on ShapeAll).
TreeLeaves == { <<Ch("s"), "Eq">>, <<Ch("s"), "Gt">>, <<Ch("x"), "Eq">> }

\* Specs the caller of Spec converts.
sEq == FilterSpec("eq", Ch("s"), VInt, <<>>)
xEq == FilterSpec("eq", Ch("x"), VInt, <<>>)
sGt == FilterSpec("gt", Ch("s"), VInt, <<>>)

SpecInputs ==
    { NilSpec,
      FilterSpec("and", <<>>, VNil, <<>>),
      FilterSpec("and", <<>>, VNil, <<NilSpec>>),
      FilterSpec("or", <<>>, VNil, <<sEq, NilSpec>>),
      FilterSpec("and", <<>>, VNil, <<sGt, xEq>>),
      FilterSpec("or", <<>>, VNil,
                 <<FilterSpec("eq", <<>>, VNil, <<>>), FilterSpec("EQ", Ch("s"), VInt, <<>>)>>),
      FilterSpec("and", <<>>, VNil, <<FilterSpec("or", <<>>, VNil, <<xEq>>)>>),
      FilterSpec("or", Ch("s"), VInt, <<sEq>>),
      FilterSpec("eq", Ch("s"), VInt, <<sEq>>) }

Next ==
    \/ \E leaf \in TreeLeaves : LeafCall(leaf[1], leaf[2], VInt)
    \/ \E args \in ArgLists : AndCall(args)
    \/ \E args \in ArgLists : OrCall(args)
    \/ \E arg \in Ptrs : NotCall(arg)
    \/ \E spec \in SpecInputs : FromSpecCall(spec)
    \/ ErrCall(Len(heap))

Spec == Init /\ [][Next]_vars

\* The first fluent leaf call on a new Builder, over every name, operator and
\* value.
NextLeaf ==
    \/ \E name \in Names, op \in ScalarOps, value \in Values :
           heap = <<>> /\ LeafCall(name, op, value)
    \/ \E name \in Names, op \in InOps, args \in SeqsUpTo(ArgVals, MaxArgs) :
           heap = <<>> /\ InCall(name, op, args)
    \/ \E name \in Names, pattern \in Patterns :
           heap = <<>> /\ LikeCall(name, pattern)

SpecLeaf == InitLeaf /\ [][NextLeaf]_vars

\* What the goroutines pass: leaves with and without error, no filter or one
\* filter to And and Or, the newest Filter to Not, a leaf spec and a logical
\* spec to FromSpec.
ConcLeaves == { <<Ch("s"), "Gt">>, <<Ch("i"), "Gt">>, <<Ch("x"), "Eq">> }
ConcArgs == {<<>>} \cup {<<p>> : p \in Ptrs}
ConcSpecs == {sGt, FilterSpec("and", <<>>, VNil, <<sEq, xEq>>)}

\* Two goroutines calling one Builder in any interleaving.
NextConc ==
    \/ \E t \in Threads, leaf \in ConcLeaves : ThreadWhere(t, leaf[1], leaf[2], VInt)
    \/ \E t \in Threads : ThreadOp(t)
    \/ \E t \in Threads, args \in ConcArgs : ThreadAnd(t, args)
    \/ \E t \in Threads, args \in ConcArgs : ThreadOr(t, args)
    \/ \E t \in Threads : ThreadNot(t, Len(heap))
    \/ \E t \in Threads, spec \in ConcSpecs : ThreadFromSpec(t, spec)
    \/ \E t \in Threads : ThreadSpec(t)

SpecConc == Init /\ [][NextConc]_vars

\* FilterSpec trees to encode: values of the types decoding produces and of
\* other types, nil children, empty members.
JSONValues == {VNil, VInt, VFloat, VBool, VStr("a"), VStr(""), VAnySlice(<<>>),
               VAnySlice(<<VFloat, VStr("a")>>), VAnySlice(<<VInt>>), VStrSlice(<<"a">>)}

JSONChildren ==
    { <<>>, <<NilSpec>>,
      <<FilterSpec("eq", Ch("s"), VFloat, <<>>), FilterSpec("or", <<>>, VNil, <<>>)>>,
      <<FilterSpec("lt", Ch("i"), VInt, <<>>)>> }

NextJSON ==
    \E op \in {"eq", "and", ""}, name \in {<<>>, Ch("s")}, value \in JSONValues,
       children \in JSONChildren :
        RoundTripCall(FilterSpec(op, name, value, children))

SpecJSON == Init /\ [][NextJSON]_vars

\* What the caller writes into the first entry of a catalog Spec() returned:
\* another kind, another name.
WrittenEntries ==
    { [Name |-> name, GoName |-> Ch("S"), Kind |-> kind] :
          name \in {Ch("s"), Ch("x")}, kind \in {"KindString", "KindInt"} }

\* Leaves of SpecAlias: one whose error depends on the kind of "s", one
\* without error.
AliasLeaves == { <<Ch("s"), "Gt">>, <<Ch("s"), "Eq">> }

AliasRoom == Len(heap) < MaxAliasNodes

\* The API and a caller that writes into the slices it handed out.
NextAlias ==
    \/ \E leaf \in AliasLeaves : AliasRoom /\ LeafCall(leaf[1], leaf[2], VInt)
    \/ \E args \in ArgLists : AliasRoom /\ AndCall(args)
    \/ \E args \in ArgLists : AliasRoom /\ OrCall(args)
    \/ \E f \in Ptrs, i \in 1..2, p \in Ptrs : WriteElemCall(f, i, p)
    \/ \E entry \in WrittenEntries : SpecWriteCall(1, entry)

SpecAlias == Init /\ [][NextAlias]_vars

\* Operator strings a FilterSpec arrives with: the tokens of the operator
\* table, and strings that are none of them.
Tokens == {"eq", "ne", "gt", "gte", "lt", "lte", "in", "nin", "like", "contains",
           "and", "or", "not", "invalid", "", "EQ"}

\* Field names of a FilterSpec, on ShapeAll: a String, an Int and a Slice
\* field, a name that is not in the catalog, no name.
ConvNames == {Ch("s"), Ch("i"), Ch("l"), Ch("x"), <<>>}

\* Values of a FilterSpec: absent, scalars, []any of zero, one and two
\* elements, a typed slice.
ConvValues == {VNil, VInt, VStr("a"), VAnySlice(<<>>), VAnySlice(<<VInt>>),
               VAnySlice(<<VInt, VStr("a")>>), VStrSlice(<<"a">>)}

\* Children of a FilterSpec: none, one, two.
ConvChildren == {<<>>, <<sEq>>, <<sGt>>, <<sEq, xEq>>}

\* The first FromSpec call on a new Builder, over every operator string, field
\* name, value and children list; then Not on the Filter it returned.
NextConv ==
    \/ \E op \in Tokens, name \in ConvNames, value \in ConvValues, children \in ConvChildren :
           heap = <<>> /\ FromSpecCall(FilterSpec(op, name, value, children))
    \/ last.fn = "FromSpec" /\ NotCall(Len(heap))

SpecConv == Init /\ [][NextConv]_vars

----------------------------------------------------------------------------
(* Reading a tree, for the properties below. *)

ToSet(q) == {q[i] : i \in DOMAIN q}

\* The Filters reachable from pointer f through children (nil reaches none).
RECURSIVE Reach(_, _, _)
Reach(h, a, f) ==
    IF f = 0 THEN {}
    ELSE {f} \cup UNION {Reach(h, a, c) : c \in ToSet(Elems(a, h[f].children))}

\* The Filters of the tree at f in depth-first pre-order: a node, then the
\* trees of its children from left to right.
RECURSIVE PreOrder(_, _, _)
RECURSIVE PreOrderFrom(_, _, _, _)
PreOrderFrom(h, a, cs, i) ==
    IF i > Len(cs) THEN <<>>
    ELSE PreOrder(h, a, cs[i]) \o PreOrderFrom(h, a, cs, i + 1)
PreOrder(h, a, f) ==
    IF f = 0 THEN <<>>
    ELSE <<f>> \o PreOrderFrom(h, a, Elems(a, h[f].children), 1)

\* The error of the first Filter of q that carries one.
FirstErr(h, q) ==
    IF \A i \in DOMAIN q : h[q[i]].err = NoErr THEN NoErr
    ELSE h[q[CHOOSE i \in DOMAIN q :
                 /\ h[q[i]].err # NoErr
                 /\ \A j \in 1..(i - 1) : h[q[j]].err = NoErr]].err

\* The last call was a fluent leaf call, and it returned normally.
LeafReturned == last.fn \in {"Leaf", "In", "Like"} /\ last.ret \in 1..Len(heap)

\* The external names of the catalog (Builder.spec.Fields).
CatalogNames == {specFields[i].Name : i \in DOMAIN specFields}

\* The kind Where resolves name to.
KindOf(name) == specFields[fields[name]].Kind

FieldNotFound(name) ==
    [is |-> "ErrFieldNotFound", text |-> "", op |-> "", kind |-> "", field |-> name]

\* The tree at pointer f without its addresses: <<>> for nil, else one record
\* with the Filter's fields and the trees of its children.
RECURSIVE TreeOf(_, _, _)
TreeOf(h, a, f) ==
    IF f = 0 THEN <<>>
    ELSE LET cs == Elems(a, h[f].children) IN
         <<[op |-> h[f].op, field |-> h[f].field, value |-> h[f].value, err |-> h[f].err,
            children |-> [i \in 1..Len(cs) |-> TreeOf(h, a, cs[i])]]>>

\* The tree b.FromSpec(spec) returns.
ConvTree(spec) ==
    LET m == FromSpec(Builder, Mem(<<>>, <<>>), spec) IN TreeOf(m.heap, m.arrays, m.ret)

\* The last call was FromSpec on a spec that is not nil, and it returned.
Converted == last.fn = "FromSpec" /\ ~last.spec.nil /\ last.ret \in 1..Len(heap)

\* The operator table: the Op each token stands for.
DefinedTokens == {"eq", "ne", "gt", "gte", "lt", "lte", "in", "nin", "like", "contains",
                  "and", "or", "not"}

TokenOp(s) ==
    CASE s = "eq" -> "Eq"
      [] s = "ne" -> "Ne"
      [] s = "gt" -> "Gt"
      [] s = "gte" -> "Gte"
      [] s = "lt" -> "Lt"
      [] s = "lte" -> "Lte"
      [] s = "in" -> "In"
      [] s = "nin" -> "Nin"
      [] s = "like" -> "Like"
      [] s = "contains" -> "Contains"
      [] s = "and" -> "And"
      [] s = "or" -> "Or"
      [] s = "not" -> "Not"

----------------------------------------------------------------------------
(* Properties. *)

\* C1: a fluent leaf call on a name that is not in the Builder's catalog returns
\* a leaf whose error is the FieldNotFoundError for that name, whatever the
\* operator and the value, and the leaf records operator, name and value.
C1_UnknownFieldShortCircuits ==
    (LeafReturned /\ last.name \notin CatalogNames) =>
        /\ heap[last.ret].err = FieldNotFound(last.name)
        /\ heap[last.ret].op = last.op
        /\ heap[last.ret].field = last.name
        /\ heap[last.ret].value = last.value

C1_Witness ==
    /\ LeafReturned /\ Built
    /\ last.name = Ch("x") /\ last.op = "Nin" /\ last.value = VAnySlice(<<VStr("a"), VInt>>)
    /\ heap[last.ret].err.is = "ErrFieldNotFound"

\* C2: Err() on a root is nil exactly when no Filter reachable from the root
\* carries an error; a nil root or child carries none.
C2_ErrIffSomeNodeHasError ==
    last.fn = "Err" =>
        (last.err = NoErr <=>
            \A n \in Reach(heap, arrays, last.root) : heap[n].err = NoErr)

\* A FieldNotFoundError two levels below the root, next to a nil child.
C2_Witness ==
    /\ last.fn = "Err" /\ last.root = 3
    /\ heap[1].err.is = "ErrFieldNotFound"
    /\ Elems(arrays, heap[2].children) = <<0, 1>>
    /\ Elems(arrays, heap[3].children) = <<2>>
    /\ last.err = heap[1].err

\* C3: Err() on a root returns the error of the first Filter in depth-first
\* pre-order that carries one.
C3_ErrIsFirstInPreOrder ==
    last.fn = "Err" =>
        last.err = FirstErr(heap, PreOrder(heap, arrays, last.root))

\* Two children with different errors: the left one's is returned.
C3_Witness ==
    /\ last.fn = "Err" /\ last.root # 0
    /\ LET cs == Elems(arrays, heap[last.root].children) IN
       /\ Len(cs) = 2 /\ cs[1] # 0 /\ cs[2] # 0
       /\ heap[cs[1]].err # NoErr /\ heap[cs[2]].err # NoErr
       /\ heap[cs[1]].err # heap[cs[2]].err
       /\ last.err = heap[cs[1]].err

\* C4: every constructing call returns a non-nil Filter and does not panic.
C4_ConstructionIsTotal ==
    last.fn \in {"Leaf", "In", "Like", "And", "Or", "Not", "FromSpec"} =>
        /\ ~last.panic
        /\ last.ret \in 1..Len(heap)

\* FromSpec of a spec whose children list holds a nil entry.
C4_Witness ==
    /\ last.fn = "FromSpec" /\ ~last.spec.nil
    /\ \E i \in DOMAIN last.spec.Children : last.spec.Children[i].nil
    /\ last.ret # 0 /\ ~last.panic
    /\ 0 \notin ToSet(Elems(arrays, heap[last.ret].children))

\* C5: Eq and Ne on a name in the catalog return a leaf with no error.
C5_EqNeNeverFail ==
    (LeafReturned /\ last.name \in CatalogNames /\ last.op \in {"Eq", "Ne"}) =>
        heap[last.ret].err = NoErr

C5_Witness ==
    /\ LeafReturned /\ last.name = Ch("u") /\ last.op = "Ne"
    /\ last.name \in CatalogNames /\ KindOf(last.name) = "KindUnknown"
    /\ last.value = VStrSlice(<<"a">>)
    /\ heap[last.ret].err = NoErr

\* C6: Gt, Gte, Lt, Lte on a name in the catalog carry InvalidFilterError exactly
\* when the kind Where resolves the name to is neither Int nor Float, and no
\* error otherwise.
C6_ComparisonNeedsNumericKind ==
    (LeafReturned /\ last.name \in CatalogNames
        /\ last.op \in {"Gt", "Gte", "Lt", "Lte"}) =>
        IF KindOf(last.name) \in {"KindInt", "KindFloat"}
        THEN heap[last.ret].err = NoErr
        ELSE heap[last.ret].err.is = "ErrInvalidFilter"

C6_Witness ==
    /\ LeafReturned /\ last.name \in CatalogNames /\ last.op = "Lte"
    /\ KindOf(last.name) = "KindFloat" /\ heap[last.ret].err = NoErr

\* C7: Like on a name in the catalog carries InvalidFilterError exactly when the
\* field's kind is not String.
C7_LikeNeedsStringKind ==
    (LeafReturned /\ last.name \in CatalogNames /\ last.op = "Like") =>
        IF KindOf(last.name) = "KindString"
        THEN heap[last.ret].err = NoErr
        ELSE heap[last.ret].err.is = "ErrInvalidFilter"

C7_Witness ==
    /\ LeafReturned /\ last.name \in CatalogNames /\ last.op = "Like"
    /\ KindOf(last.name) = "KindString" /\ last.value = VStr("%")
    /\ heap[last.ret].err = NoErr

\* C8: Contains on a name in the catalog carries InvalidFilterError exactly when
\* the field's kind is not Slice.
C8_ContainsNeedsSliceKind ==
    (LeafReturned /\ last.name \in CatalogNames /\ last.op = "Contains") =>
        IF KindOf(last.name) = "KindSlice"
        THEN heap[last.ret].err = NoErr
        ELSE heap[last.ret].err.is = "ErrInvalidFilter"

C8_Witness ==
    /\ LeafReturned /\ last.name \in CatalogNames /\ last.op = "Contains"
    /\ KindOf(last.name) = "KindSlice" /\ last.value = VNil
    /\ heap[last.ret].err = NoErr

\* C9: the fluent In and Nin on a name in the catalog return a leaf with no
\* error whose value is a []any holding exactly the arguments, in order.
C9_FluentInKeepsArguments ==
    (LeafReturned /\ last.fn = "In" /\ last.name \in CatalogNames) =>
        /\ heap[last.ret].err = NoErr
        /\ heap[last.ret].op = last.op
        /\ heap[last.ret].value = [t |-> "[]any", v |-> last.vals]

C9_Witness ==
    /\ LeafReturned /\ last.fn = "In" /\ last.name \in CatalogNames
    /\ KindOf(last.name) = "KindBool" /\ last.op = "Nin"
    /\ last.vals = <<>>
    /\ heap[last.ret].err = NoErr /\ heap[last.ret].value.v = <<>>

\* C10: FromSpec(nil) returns a Filter that carries InvalidFilterError and has
\* an empty field name, an empty value and no children.
C10_NilSpecIsInvalidFilter ==
    (last.fn = "FromSpec" /\ last.spec.nil) =>
        /\ last.ret \in 1..Len(heap)
        /\ heap[last.ret].err.is = "ErrInvalidFilter"
        /\ heap[last.ret].field = <<>>
        /\ heap[last.ret].value = VNil
        /\ Elems(arrays, heap[last.ret].children) = <<>>

C10_Witness ==
    /\ last.fn = "FromSpec" /\ last.spec.nil /\ last.ret = Len(heap) /\ last.ret > 1
    /\ heap[last.ret].err.is = "ErrInvalidFilter"

\* C11: FromSpec reads the operator string case-sensitively and totally: each
\* of the thirteen tokens eq, ne, gt, gte, lt, lte, in, nin, like, contains,
\* and, or, not parses without error to its own operator, and every other
\* string makes FromSpec return a Filter carrying InvalidFilterError, whatever
\* the field, value and children of the spec.
C11_TokenDispatchIsTotal ==
    Converted =>
        IF last.spec.Op \in DefinedTokens
        THEN /\ parseOp(last.spec.Op) = [op |-> TokenOp(last.spec.Op), err |-> NoErr]
             /\ \A s \in DefinedTokens \ {last.spec.Op} :
                    parseOp(s).op # parseOp(last.spec.Op).op
        ELSE /\ heap[last.ret].err.is = "ErrInvalidFilter"
             /\ Err(heap, arrays, last.ret).is = "ErrInvalidFilter"

\* C12: FromSpec of "and" or "or" returns a node with an InvalidFilterError of
\* its own exactly when the spec has no children; with children the node has no
\* error of its own, its operator is And or Or, its children are the
\* conversions of the spec's children in the same number and order, and Err()
\* of the node reports an error exactly when a child's tree holds one.
C12_LogicalSpecKeepsChildren ==
    (Converted /\ last.spec.Op \in {"and", "or"}) =>
        LET f == heap[last.ret]
            cs == Elems(arrays, f.children)
            n == Len(last.spec.Children)
        IN
        /\ f.err # NoErr <=> n = 0
        /\ f.err # NoErr => f.err.is = "ErrInvalidFilter"
        /\ f.op = TokenOp(last.spec.Op)
        /\ Len(cs) = n
        /\ \A i \in 1..n : TreeOf(heap, arrays, cs[i]) = ConvTree(last.spec.Children[i])
        /\ n > 0 =>
              (Err(heap, arrays, last.ret) # NoErr <=>
                  \E i \in 1..n : Err(heap, arrays, cs[i]) # NoErr)

\* "and" over a leaf with InvalidFilterError and a leaf with
\* FieldNotFoundError: two children in that order, the error only in Err().
C12_Witness ==
    /\ Converted /\ last.spec.Op = "and" /\ last.spec.Children = <<sGt, xEq>>
    /\ heap[last.ret].err = NoErr /\ heap[last.ret].op = "And"
    /\ LET cs == Elems(arrays, heap[last.ret].children) IN
       /\ Len(cs) = 2
       /\ heap[cs[1]].err.is = "ErrInvalidFilter"
       /\ heap[cs[2]].err.is = "ErrFieldNotFound"
    /\ Err(heap, arrays, last.ret).is = "ErrInvalidFilter"

\* C13: the fluent And and Or check no arity: for zero or more filters they
\* return a new node with operator And or Or, empty field, nil value, the given
\* filters as children in order and no error of its own; with zero filters
\* Err() of the node is nil.
C13_FluentAndOrAnyArity ==
    last.fn \in {"And", "Or"} =>
        /\ last.ret = Len(heap) /\ last.ret # 0
        /\ heap[last.ret].op = last.fn
        /\ heap[last.ret].field = <<>>
        /\ heap[last.ret].value = VNil
        /\ Elems(arrays, heap[last.ret].children) = last.args
        /\ heap[last.ret].err = NoErr
        /\ last.args = <<>> => Err(heap, arrays, last.ret) = NoErr

\* And() with no filters, after a Filter exists.
C13_Witness ==
    /\ last.fn = "And" /\ last.args = <<>> /\ last.ret > 1
    /\ heap[last.ret].op = "And" /\ heap[last.ret].err = NoErr
    /\ Elems(arrays, heap[last.ret].children) = <<>>

\* C14: FromSpec of "not" returns a node with an InvalidFilterError of its own
\* exactly when the spec does not have exactly one child; with one child the
\* node has operator Not, no error of its own and one child, the conversion of
\* the spec's child, and Err() is nil when that child converts without error.
\* Every Not node without an error of its own has exactly one child.
C14_NotSpecNeedsOneChild ==
    /\ (Converted /\ last.spec.Op = "not") =>
          LET f == heap[last.ret]
              cs == Elems(arrays, f.children)
              n == Len(last.spec.Children)
          IN
          /\ f.err # NoErr <=> n # 1
          /\ f.err # NoErr => f.err.is = "ErrInvalidFilter"
          /\ n = 1 =>
                /\ f.op = "Not"
                /\ Len(cs) = 1
                /\ TreeOf(heap, arrays, cs[1]) = ConvTree(last.spec.Children[1])
                /\ Err(heap, arrays, cs[1]) = NoErr => Err(heap, arrays, last.ret) = NoErr
    /\ \A k \in 1..Len(heap) :
          (heap[k].op = "Not" /\ heap[k].err = NoErr) =>
              Len(Elems(arrays, heap[k].children)) = 1

\* The fluent leaf call a leaf token stands for: Where(field).<Operator>(value).
\* Like takes a string; for any other value there is no fluent call.
FluentLeaf(op, field, value) ==
    IF op = "like"
    THEN FieldLike(specFields, Where(fields, field), value.v[1])
    ELSE FieldOp(specFields, Where(fields, field), TokenOp(op), value)

\* C15: for the leaf tokens eq, ne, gt, gte, lt, lte, like, contains and every
\* field name and value, FromSpec returns a Filter equal to the one the fluent
\* call Where(field).<Operator>(value) returns: same operator, field name,
\* value and error.
C15_LeafSpecEqualsFluentCall ==
    (/\ Converted
     /\ last.spec.Op \in {"eq", "ne", "gt", "gte", "lt", "lte", "like", "contains"}
     /\ last.spec.Op = "like" => last.spec.Value.t = "string") =>
        LET f == heap[last.ret]
            g == FluentLeaf(last.spec.Op, last.spec.Field, last.spec.Value)
        IN
        /\ f.op = g.op
        /\ f.field = g.field
        /\ f.value = g.value
        /\ f.err = g.err

\* C16: FromSpec of "in" or "nin" on a field of the catalog keeps a []any
\* value of n elements as the leaf's []any value of the same n elements in
\* order, and wraps a typed slice into a one-element []any; in both cases the
\* operator is In or Nin and the leaf has no error.
C16_InSpecShapesValue ==
    (/\ Converted /\ last.spec.Op \in {"in", "nin"}
     /\ last.spec.Field \in CatalogNames
     /\ IsSliceKind(last.spec.Value)) =>
        /\ heap[last.ret].op = TokenOp(last.spec.Op)
        /\ heap[last.ret].err = NoErr
        /\ heap[last.ret].value =
               IF last.spec.Value.t = "[]any" THEN last.spec.Value
               ELSE VAnySlice(<<last.spec.Value>>)

\* C17: an In or Nin Filter on a field of the catalog carries
\* InvalidFilterError whenever the value supplied is not a slice; FromSpec of
\* "in" or "nin" with a scalar or absent value returns a leaf carrying
\* InvalidFilterError.
C17_InNeedsSliceValue ==
    /\ (/\ Converted /\ last.spec.Op \in {"in", "nin"}
        /\ last.spec.Field \in CatalogNames
        /\ ~IsSliceKind(last.spec.Value)) =>
          heap[last.ret].err.is = "ErrInvalidFilter"
    /\ \A k \in 1..Len(heap) :
          (/\ heap[k].op \in {"In", "Nin"}
           /\ heap[k].field \in CatalogNames
           /\ ~IsSliceKind(heap[k].value)) =>
              heap[k].err.is = "ErrInvalidFilter"

\* C18: FromSpec of "like" on a String field of the catalog returns a leaf
\* carrying InvalidFilterError when the value is not a string, and a Like leaf
\* with no error whose value is the pattern when it is a string.
C18_LikeSpecNeedsStringValue ==
    (/\ Converted /\ last.spec.Op = "like"
     /\ last.spec.Field \in CatalogNames
     /\ KindOf(last.spec.Field) = "KindString") =>
        IF last.spec.Value.t # "string"
        THEN heap[last.ret].err.is = "ErrInvalidFilter"
        ELSE /\ heap[last.ret].op = "Like"
             /\ heap[last.ret].err = NoErr
             /\ heap[last.ret].value = last.spec.Value

\* The alias of a declared field is literally "-".
AliasIsDash(field) == field.Tags.has /\ field.Tags.json = <<"-">>

\* The declared fields of shape whose alias is not "-", in declaration order.
Kept == SelectSeq(shape.Fields, LAMBDA field : ~AliasIsDash(field))

\* C19: New gives each declared field the external name its alias names when
\* the alias has a non-empty name component, no entry when the alias is
\* literally "-", and its declared name otherwise; the catalog lists the
\* entries that remain in declaration order, and a field left out is found
\* neither under "-" nor under its declared name.
C19_ExternalNamesFollowAlias ==
    Built =>
        LET names == [i \in 1..Len(Kept) |-> resolveFieldName(Kept[i])] IN
        /\ [i \in 1..Len(specFields) |-> specFields[i].Name] = names
        /\ [i \in 1..Len(specFields) |-> specFields[i].GoName] =
              [i \in 1..Len(Kept) |-> Kept[i].Name]
        /\ DOMAIN fields = ToSet(names)
        /\ \A i \in DOMAIN shape.Fields :
              (/\ AliasIsDash(shape.Fields[i]) /\ LeafReturned
               /\ last.name \in {<<"-">>, shape.Fields[i].Name} \ ToSet(names)) =>
                  heap[last.ret].err = FieldNotFound(last.name)

\* The first declared field of shape that New gives the external name name.
FirstDeclared(name) ==
    shape.Fields[CHOOSE i \in DOMAIN shape.Fields :
        /\ resolveFieldName(shape.Fields[i]) = name
        /\ \A j \in 1..(i - 1) : resolveFieldName(shape.Fields[j]) # name]

\* C20: external names are unique in the catalog: when two declared fields
\* resolve to one external name the catalog holds one entry for it, the
\* first-declared field's, and a leaf call on that name is validated against
\* the kind of the first-declared field.
C20_ExternalNamesUnique ==
    Built =>
        /\ \A i, j \in DOMAIN specFields :
              specFields[i].Name = specFields[j].Name => i = j
        /\ \A name \in CatalogNames :
              specFields[fields[name]].GoName = FirstDeclared(name).Name
        /\ (LeafReturned /\ last.name \in CatalogNames) =>
              LET first == FirstDeclared(last.name)
                  entry == [Name |-> last.name, GoName |-> first.Name,
                            Kind |-> resolveFieldKind(first.Kind, first.Type)]
              IN heap[last.ret].err =
                     validateValue(<<entry>>, [field |-> last.name, spec |-> 1, err |-> NoErr],
                                   last.op, last.value)

\* The declared field of shape that catalog entry i was made from.
DeclaredOf(i) ==
    shape.Fields[CHOOSE j \in DOMAIN shape.Fields :
                     shape.Fields[j].Name = specFields[i].GoName]

\* C21: New classifies a scalar whose type name starts with "int" or "uint" as
\* Int, with "float" as Float, one named exactly "bool" as Bool, exactly
\* "string" as String and any other scalar as Unknown; a slice is Slice
\* whatever its elements; every other category is Unknown.
C21_KindClassification ==
    Built =>
        \A i \in DOMAIN specFields :
            LET f == DeclaredOf(i)
                kind == specFields[i].Kind
            IN
            IF f.Kind = "KindScalar"
            THEN IF HasPrefix(f.Type, <<"i", "n", "t">>)
                     \/ HasPrefix(f.Type, <<"u", "i", "n", "t">>)
                 THEN kind = "KindInt"
                 ELSE IF HasPrefix(f.Type, <<"f", "l", "o", "a", "t">>) THEN kind = "KindFloat"
                 ELSE IF f.Type = <<"b", "o", "o", "l">> THEN kind = "KindBool"
                 ELSE IF f.Type = <<"s", "t", "r", "i", "n", "g">> THEN kind = "KindString"
                 ELSE kind = "KindUnknown"
            ELSE IF f.Kind = "KindSlice" THEN kind = "KindSlice"
            ELSE kind = "KindUnknown"

\* New on ShapeKinds: uint32 is Int, float32 Float, boolean and strings
\* Unknown, []int Slice, a pointer and an interface Unknown.
C21_Witness ==
    /\ Built /\ shape = ShapeKinds
    /\ [i \in 1..Len(specFields) |-> specFields[i].Kind] =
          <<"KindInt", "KindInt", "KindFloat", "KindUnknown", "KindUnknown",
            "KindSlice", "KindUnknown", "KindUnknown">>

\* C22: New on a type that is not a struct returns ErrNotStruct and no
\* Builder; on a struct it returns a Builder and no error.
C22_NotStructIsRejected ==
    IF shape.IsStruct
    THEN /\ newErr = "nil"
         /\ typeName = shape.TypeName
    ELSE /\ newErr = "ErrNotStruct"
         /\ specFields = <<>> /\ fields = EmptyMap
         /\ heap = <<>> /\ last = NoCall

C22_Witness ==
    /\ shape = ShapeSlice /\ ~shape.IsStruct
    /\ newErr = "ErrNotStruct" /\ ~Built

\* C23: no call changes a Filter that exists: And, Or, Not, the leaf calls,
\* FromSpec and Err leave operator, field, value, children and error of every
\* Filter built before as they were and only add Filters, so Err() of a Filter
\* used under several parents stays what it was, and an error once set is
\* never cleared or overwritten.
C23_FiltersAreImmutable ==
    [][\A k \in 1..Len(heap) :
          /\ k <= Len(heap')
          /\ heap'[k] = heap[k]
          /\ Elems(arrays', heap[k].children) = Elems(arrays, heap[k].children)
          /\ Err(heap', arrays', k) = Err(heap, arrays, k)]_vars

\* A leaf with an error under two parents, each reporting that error.
C23_Witness ==
    /\ Len(heap) = 3 /\ heap[1].err # NoErr /\ heap[1].children = 0
    /\ heap[2].op = "And" /\ Elems(arrays, heap[2].children) = <<1>>
    /\ heap[3].op = "Or" /\ Elems(arrays, heap[3].children) = <<1, 2>>
    /\ Err(heap, arrays, 2) = heap[1].err
    /\ Err(heap, arrays, 3) = heap[1].err
    /\ last.fn = "Err"

\* The tree a call returns when it runs alone on the Builder New made.
AloneTree(call) ==
    LET b == New(shape) IN
    CASE call.fn = "Leaf" ->
            LET g == FieldOp(b.Fields, Where(b.fields, call.name), call.op, call.value) IN
            <<[op |-> g.op, field |-> g.field, value |-> g.value, err |-> g.err,
               children |-> <<>>]>>
      [] call.fn \in {"And", "Or", "Not"} ->
            <<[op |-> call.fn, field |-> <<>>, value |-> VNil, err |-> NoErr,
               children |-> [i \in 1..Len(call.args) |-> TreeOf(heap, arrays, call.args[i])]]>>
      [] call.fn = "FromSpec" ->
            LET m == FromSpec([Fields |-> b.Fields, fields |-> b.fields],
                              Mem(<<>>, <<>>), call.spec)
            IN TreeOf(m.heap, m.arrays, m.ret)

\* C24: after New no call on the Builder (Spec, Where, And, Or, Not, FromSpec,
\* the operator methods) writes the catalog or the name index, so in every
\* interleaving of calls from several goroutines each call returns what it
\* returns when it runs alone.
C24_CallsDoNotInterfere ==
    /\ typeName = New(shape).TypeName
    /\ specFields = New(shape).Fields
    /\ fields = New(shape).fields
    /\ \A t \in Threads :
          threads[t].pc = "done" =>
              IF threads[t].call.fn = "Spec"
              THEN threads[t].out =
                       [TypeName |-> New(shape).TypeName, Fields |-> New(shape).Fields]
              ELSE /\ threads[t].ret \in 1..Len(heap)
                   /\ TreeOf(heap, arrays, threads[t].ret) = AloneTree(threads[t].call)

\* Two leaf calls that both began before either returned, on different
\* fields, each with its own outcome.
C24_Witness ==
    /\ threads[1].pc = "done" /\ threads[2].pc = "done"
    /\ threads[1].call.fn = "Leaf" /\ threads[2].call.fn = "Leaf"
    /\ threads[1].start = 0 /\ threads[2].start = 0
    /\ threads[1].ret = 2 /\ threads[2].ret = 1
    /\ threads[1].call.name = Ch("s") /\ threads[2].call.name = Ch("i")
    /\ heap[2].err.is = "ErrInvalidFilter" /\ heap[1].err = NoErr

\* The value decoding produces for a value: numbers are float64, slices []any.
RECURSIVE Generic(_)
Generic(value) ==
    CASE value.t = "int" -> [t |-> "float64", v |-> value.v]
      [] value.t = "[]string" ->
            VAnySlice([i \in 1..Len(value.v) |-> VStr(value.v[i])])
      [] value.t = "[]any" -> VAnySlice([i \in 1..Len(value.v) |-> Generic(value.v[i])])
      [] OTHER -> value

RECURSIVE GenericSpec(_)
GenericSpec(spec) ==
    IF spec.nil THEN spec
    ELSE [spec EXCEPT !.Value = Generic(spec.Value),
                      !.Children = [i \in 1..Len(spec.Children) |->
                                       GenericSpec(spec.Children[i])]]

\* The encoding leaves out an empty field, an absent value and an empty
\* children list at every node.
RECURSIVE OmitsEmpty(_, _)
OmitsEmpty(spec, json) ==
    IF spec.nil THEN json = JNull
    ELSE /\ json.j = "obj"
         /\ HasMember(json, "op")
         /\ HasMember(json, "field") <=> spec.Field # <<>>
         /\ HasMember(json, "value") <=> spec.Value # VNil
         /\ HasMember(json, "children") <=> spec.Children # <<>>
         /\ \A i \in 1..Len(spec.Children) :
               OmitsEmpty(spec.Children[i], GetMember(json, "children").v[i])

\* C25 as stated: encoding a FilterSpec tree and decoding it again gives a
\* structurally equal tree, same operator token, field, value and children at
\* every node, with an empty field, an absent value and an empty children
\* list left out of the encoding.
C25_RoundTripIsIdentity ==
    last.fn = "RoundTrip" =>
        /\ last.out = last.spec
        /\ OmitsEmpty(last.spec, last.wire)

\* C25, amended: encoding and decoding gives the tree with every value turned
\* into the type decoding produces (a number float64, a slice []any); a tree
\* whose values already have those types comes back structurally equal, and an
\* empty field, an absent value and an empty children list are left out of the
\* encoding.
C25_RoundTripIsGeneric ==
    last.fn = "RoundTrip" =>
        /\ last.out = GenericSpec(last.spec)
        /\ GenericSpec(last.spec) = last.spec => last.out = last.spec
        /\ OmitsEmpty(last.spec, last.wire)

\* A logical node over a leaf with a float64 value and an empty "or": it
\* comes back equal, and no field or value member is written for it.
C25_Witness ==
    /\ last.fn = "RoundTrip" /\ last.spec.Op = "and"
    /\ last.spec.Field = <<>> /\ last.spec.Value = VNil
    /\ Len(last.spec.Children) = 2 /\ last.spec.Children[1].Value = VFloat
    /\ last.out = last.spec
    /\ ~HasMember(last.wire, "field") /\ ~HasMember(last.wire, "value")
    /\ HasMember(last.wire, "children")

\* C26: no Filter has both a field name and children: a Filter with operator
\* And, Or or Not has an empty field and a nil value, a Filter with any other
\* operator has no children; FromSpec ignores a field or value given on a
\* logical spec and children given on a leaf spec.
C26_LeafOrLogical ==
    \A k \in 1..Len(heap) :
        LET cs == Elems(arrays, heap[k].children) IN
        /\ ~(heap[k].field # <<>> /\ cs # <<>>)
        /\ heap[k].op \in {"And", "Or", "Not"} =>
              (heap[k].field = <<>> /\ heap[k].value = VNil)
        /\ heap[k].op \notin {"And", "Or", "Not"} => cs = <<>>

\* FromSpec of an "or" spec that names a field and a value, after FromSpec of
\* an "eq" spec that has children.
C26_Witness ==
    /\ Converted /\ last.spec.Op = "or"
    /\ last.spec.Field = Ch("s") /\ last.spec.Value = VInt
    /\ heap[last.ret].op = "Or" /\ heap[last.ret].field = <<>>
    /\ heap[last.ret].value = VNil
    /\ Len(Elems(arrays, heap[last.ret].children)) = 1
    /\ heap[1].op = "Eq" /\ heap[1].field = Ch("s") /\ heap[1].children = 0
    /\ last.ret = 3

\* C27: Err() returns on every Filter the calls of the API can build, in any
\* order and with Filters used under several parents: every child of a Filter
\* was built before the Filter, so the tree is finite and has no cycle, and
\* the traversal visits only Filters reachable from the root, finitely often.
C27_ErrTerminates ==
    /\ \A k \in 1..Len(heap) :
          \A i \in 1..Len(Elems(arrays, heap[k].children)) :
              Elems(arrays, heap[k].children)[i] < k
    /\ last.fn = "Err" =>
          /\ ToSet(PreOrder(heap, arrays, last.root)) = Reach(heap, arrays, last.root)
          /\ Reach(heap, arrays, last.root) \subseteq 1..last.root
          /\ last.err = Err(heap, arrays, last.root)

\* Err on a Filter whose two children are one Filter, itself over one Filter
\* twice: seven visits of three Filters.
C27_Witness ==
    /\ last.fn = "Err" /\ last.root = 3
    /\ Elems(arrays, heap[3].children) = <<2, 2>>
    /\ Elems(arrays, heap[2].children) = <<1, 1>>
    /\ Len(PreOrder(heap, arrays, 3)) = 7
    /\ Reach(heap, arrays, 3) = {1, 2, 3}

\* Spec.Field(name): the index of the first entry of Fields with that name, 0
\* for nil.
SpecField(fs, name) ==
    IF \E i \in DOMAIN fs : fs[i].Name = name
    THEN CHOOSE i \in DOMAIN fs :
             /\ fs[i].Name = name
             /\ \A j \in 1..(i - 1) : fs[j].Name # name
    ELSE 0

\* C28: the name index and the catalog agree: for every name, Where(name)
\* resolves without error exactly when Spec().Field(name) is not nil, and the
\* kind a leaf call is validated against is the kind of the entry
\* Spec().Field(name) returns, also when two declared fields share a name.
C28_IndexAgreesWithCatalog ==
    Built =>
        /\ \A name \in Names :
              /\ Where(fields, name).err = NoErr <=> SpecField(specFields, name) # 0
              /\ Where(fields, name).err = NoErr =>
                    specFields[Where(fields, name).spec].Kind =
                        specFields[SpecField(specFields, name)].Kind
        /\ (LeafReturned /\ SpecField(specFields, last.name) # 0) =>
              heap[last.ret].err =
                  validateValue(specFields,
                                [field |-> last.name,
                                 spec |-> SpecField(specFields, last.name), err |-> NoErr],
                                last.op, last.value)

\* C29: the children of a logical Filter are fixed when it is built: a write
\* by the caller to an element of the slice passed to And or Or, or of the
\* slice Children() returned, changes neither Children() nor Err() of the
\* Filter, and cannot make the Filter its own descendant.
C29_ChildrenFixedAtConstruction ==
    last.fn = "Write" =>
        /\ Elems(arrays, heap[last.root].children) = last.args
        /\ ChildrenOlder
        /\ Err(heap, arrays, last.root) = last.err

\* C30: the catalog Spec() returns is cut off from the Builder: after the
\* caller changes an entry of it, a second Spec() returns the entries New
\* extracted, and every leaf call has the error it would have had before.
C30_SpecIsIsolated ==
    Built =>
        /\ specFields = New(shape).Fields
        /\ LeafReturned =>
              heap[last.ret].err =
                  FieldOp(New(shape).Fields, Where(New(shape).fields, last.name),
                          last.op, last.value).err

====
